---------------------------- MODULE Spec2Model ----------------------------
(***************************************************************************)
(* Instagram Prod Readiness Audit (audit_instagram_prod_readiness.py).     *)
(*                                                                         *)
(* The state is the tree under the root path given on the command line and *)
(* the position of one invocation of main().  The files of the tree are    *)
(* drawn from a small set of sample paths and sample texts.  What the      *)
(* libraries compute on them (re.search, re.finditer, Path.rglob, Path.name)*)
(* is tabulated below from the library's results on exactly these samples; *)
(* everything the program itself does with those results (the loops, the   *)
(* break, the predicates, the score, the exit codes) is written out.       *)
(***************************************************************************)
EXTENDS Naturals, Sequences, FiniteSets, TLC

VARIABLES
    rootKind,   \* what sys.argv[1] names: "dir", "file" or "absent"
    fs,         \* the tree under the root: path -> entry
    argc,       \* len(sys.argv) of the current invocation
    pc,         \* position of the current invocation in main()
    report,     \* main's local `report`
    written,    \* report files this invocation has written
    outcome,    \* how the latest invocation ended: "none", "return", "raise"
    code,       \* the value it returned
    last,       \* report of the latest earlier invocation that returned 0
    changed     \* a source file was added since that invocation

vars == <<rootKind, fs, argc, pc, report, written, outcome, code, last, changed>>

\* Bound: number of source entries created under the root.
MaxFiles == 2

\* ---- paths ----
ReportJson == "audit_report.json"
ReportMd == "audit_report.md"
SourcePaths ==
    {"src/webhook.ts", "startup/validation.ts", "db/schema.sql", "docs/notes.md",
     "Dockerfile", "docker-compose.yml", ".env.example"}
AllPaths == SourcePaths \cup {ReportJson, ReportMd}

\* One enumeration order of the tree; every walk of the tree follows it
\* (os.scandir gives no order, but gives the same one for an unchanged entry).
WalkOrder ==
    <<"src/webhook.ts", "startup/validation.ts", "db/schema.sql", "docs/notes.md",
      "Dockerfile", "docker-compose.yml", ".env.example", ReportJson, ReportMd>>

\* The text of a written report, kept as one token per file.
ReportJsonText == "<text of audit_report.json>"
ReportMdText == "<text of audit_report.md>"

\* ---- sample texts ----
TextWebhookHeader ==
    "const sig = req.headers['x-hub-signature-256']; if (!sig) return res.sendStatus(429);"
TextWebhookVerify ==
    "if (!crypto.timingSafeEqual(a, b)) throw e; verify(req.rawBody, { timeout: 5000 });"
TextSchemaEvents ==
    "CREATE TABLE ev (merchant_id int, instagram_page_id int, event_id int, PRIMARY KEY (merchant_id, instagram_page_id), UNIQUE (merchant_id, event_id)); CREATE POLICY p ON ev;"
TextSchemaPages ==
    "ALTER TABLE pages ADD COLUMN page_access_token_enc bytea, ADD COLUMN renewed_at date; SELECT set_merchant_context($1);"
TextOauth ==
    "const code_verifier = gen(); await redis.setex('pkce:' + state, 600, code_verifier); await redis.incr('rl:' + ip);"
TextWorker ==
    "worker.on('failed', job => redis.lpush('dlq', job)); await redis.del(key);"
TextRetry ==
    "q.on('failed', log); try { await sleep(1000 * Math.random()); } catch (e) {}"
TextDockerSingle ==
    "FROM node:20\nEXPOSE 3000\n"
TextDockerMulti ==
    "FROM node:20 AS build\nRUN npm ci\nFROM node:20\nEXPOSE 3000\n"
TextEnv ==
    "PORT=3000\nREDIS_URL=rediss://cache:6379\nOPENAI_API_KEY=sk-your_key\n"
TextStartup ==
    "const required = ['REDIS_URL', 'DATABASE_URL', 'PORT']; const port = process.env.PORT || 8080; app.listen(3000);"
TextCompose ==
    "services:\n  app:\n    mem_limit: 512mb\n    ports: [\"8080:3000\"]\n"

SearchTableIM ==
    (TextWebhookHeader :> {"429", "X-Hub-Signature-256", "x-hub-signature-256"}) @@
    (TextWebhookVerify :> {"rawBody", "req\\.raw", "timingSafeEqual", "crypto\\.timingSafeEqual", "timeout\\s*:\\s*\\d+"}) @@
    (TextSchemaEvents :> {"UNIQUE\\s*\\(\\s*merchant_id\\s*,\\s*event_id\\s*\\)", "CREATE POLICY", "PRIMARY KEY\\s*\\(\\s*merchant_id\\s*,\\s*instagram_page_id\\s*\\)"}) @@
    (TextSchemaPages :> {"renew", "set_merchant_context\\(", "page_access_token_enc"}) @@
    (TextOauth :> {"code_verifier", "pkce", "pkce:.*state", "setex|setEx\\(", "redis\\.incr\\("}) @@
    (TextWorker :> {"redis\\.(del|unlink)\\(", "\\.on\\(['\\\"]failed['\\\"]", "dlq", "redis\\.(lpush|rpush)\\("}) @@
    (TextRetry :> {"Math\\.random\\(\\)", "\\.on\\(['\\\"]failed['\\\"]", "try", "catch"}) @@
    (TextDockerSingle :> {"FROM\\s+node:.*\\n", "EXPOSE\\s+[0-9]+"}) @@
    (TextDockerMulti :> {"FROM\\s+node:.*AS\\s+build", "FROM\\s+node:.*\\n", "EXPOSE\\s+[0-9]+"}) @@
    (TextEnv :> {"REDIS_URL", "rediss://"}) @@
    (TextStartup :> {"REDIS_URL"}) @@
    (TextCompose :> {"MB"}) @@
    (ReportJsonText :> {"429", "backoff", "dlq", "encryp", "exponential", "long.*lived", "pkce", "rawBody", "renew", "try"}) @@
    (ReportMdText :> {"429", "backoff", "dlq", "encryp", "exponential", "long.*lived", "pkce", "rawBody", "renew", "try"}) @@
    ("" :> {})
SearchTable ==
    (TextWebhookHeader :> {}) @@
    (TextWebhookVerify :> {}) @@
    (TextSchemaEvents :> {}) @@
    (TextSchemaPages :> {}) @@
    (TextOauth :> {}) @@
    (TextWorker :> {}) @@
    (TextRetry :> {}) @@
    (TextDockerSingle :> {}) @@
    (TextDockerMulti :> {}) @@
    (TextEnv :> {"REDIS_URL", "OPENAI_API_KEY", "PORT", "sk-your_"}) @@
    (TextStartup :> {"DATABASE_URL", "REDIS_URL", "PORT"}) @@
    (TextCompose :> {}) @@
    (ReportJsonText :> {}) @@
    (ReportMdText :> {}) @@
    ("" :> {})
FindIterTable ==
    (<<"^\\s*PORT\\s*=\\s*([0-9]+)", TextEnv>> :> <<"3000">>) @@
    (<<"EXPOSE\\s+([0-9]+)", TextDockerSingle>> :> <<"3000">>) @@
    (<<"EXPOSE\\s+([0-9]+)", TextDockerMulti>> :> <<"3000">>) @@
    (<<"ports:\\s*\\[([^\\]]+)\\]", TextCompose>> :> <<"\"8080:3000\"">>) @@
    (<<"process\\.env\\.PORT\\s*\\|\\|\\s*([0-9]+)", TextStartup>> :> <<"8080">>) @@
    (<<"\\.listen\\(\\s*([0-9]{2,5})", TextStartup>> :> <<"3000">>)
SplitPairsTable ==
    ("\"8080:3000\"" :> <<<<"8080", "3000">>>>)
GlobTable ==
    ("*.ts" :> {"src/webhook.ts", "startup/validation.ts"}) @@
    ("*.js" :> {}) @@
    ("*.sql" :> {"db/schema.sql"}) @@
    ("*.yml" :> {"docker-compose.yml"}) @@
    ("*.yaml" :> {}) @@
    ("*" :> {".env.example", "Dockerfile", "audit_report.json", "audit_report.md", "db/schema.sql", "docker-compose.yml", "docs/notes.md", "src/webhook.ts", "startup/validation.ts"}) @@
    ("Dockerfile" :> {"Dockerfile"}) @@
    ("docker-compose*.yml" :> {"docker-compose.yml"}) @@
    ("docker-compose*.yaml" :> {}) @@
    ("startup/validation.ts" :> {"startup/validation.ts"}) @@
    ("config/environment.ts" :> {}) @@
    ("*.json" :> {"audit_report.json"}) @@
    ("*.md" :> {"audit_report.md", "docs/notes.md"}) @@
    ("*.tsx" :> {}) @@
    ("*.jsx" :> {}) @@
    ("*.env" :> {}) @@
    ("*.toml" :> {}) @@
    ("*.conf" :> {}) @@
    ("*.dockerfile" :> {})
NameTable ==
    ("src/webhook.ts" :> "webhook.ts") @@
    ("startup/validation.ts" :> "validation.ts") @@
    ("db/schema.sql" :> "schema.sql") @@
    ("docs/notes.md" :> "notes.md") @@
    ("Dockerfile" :> "Dockerfile") @@
    ("docker-compose.yml" :> "docker-compose.yml") @@
    (".env.example" :> ".env.example") @@
    ("audit_report.json" :> "audit_report.json") @@
    ("audit_report.md" :> "audit_report.md")

Texts ==
    {TextWebhookHeader, TextWebhookVerify, TextSchemaEvents, TextSchemaPages, TextOauth,
     TextWorker, TextRetry, TextDockerSingle, TextDockerMulti, TextEnv, TextStartup,
     TextCompose}

\* ---- entries of the tree ----
Absent == [kind |-> "absent", text |-> ""]
Dir == [kind |-> "dir", text |-> ""]
File(t) == [kind |-> "file", text |-> t]

\* The source entries an environment step may create: path and content.
Samples ==
    {<<"src/webhook.ts", File(TextWebhookHeader)>>, <<"src/webhook.ts", File(TextWebhookVerify)>>,
     <<"src/webhook.ts", File(TextOauth)>>, <<"src/webhook.ts", File(TextWorker)>>,
     <<"src/webhook.ts", File(TextRetry)>>, <<"src/webhook.ts", Dir>>,
     <<"startup/validation.ts", File(TextStartup)>>, <<"startup/validation.ts", File(TextWebhookVerify)>>,
     <<"startup/validation.ts", File(TextRetry)>>,
     <<"db/schema.sql", File(TextSchemaEvents)>>, <<"db/schema.sql", File(TextSchemaPages)>>,
     <<"docs/notes.md", File(TextWebhookHeader)>>, <<"docs/notes.md", File(TextSchemaEvents)>>,
     <<"docs/notes.md", File(TextDockerMulti)>>,
     <<"Dockerfile", File(TextDockerSingle)>>, <<"Dockerfile", File(TextDockerMulti)>>,
     <<"docker-compose.yml", File(TextCompose)>>, <<"docker-compose.yml", File(TextDockerSingle)>>,
     <<"docker-compose.yml", File(TextDockerMulti)>>,
     <<".env.example", File(TextEnv)>>}

\* ---- what the libraries return on the samples ----
\* re.search(rx, t, flags=re.I|re.M) is not None
\* (SearchTableIM), re.search(rx, t) is not None (SearchTable).
re_search(rx, t, flags) ==
    rx \in (IF flags = "I|M" THEN SearchTableIM[t] ELSE SearchTable[t])

\* [m.group(1) for m in re.finditer(rx, t, flags)]
re_finditer(rx, t) ==
    IF <<rx, t>> \in DOMAIN FindIterTable THEN FindIterTable[<<rx, t>>] ELSE <<>>

\* ---- helpers ----
Range(s) == {s[i] : i \in 1..Len(s)}

RECURSIVE FlatMap(_, _)
FlatMap(Op(_), s) ==
    IF s = <<>> THEN <<>> ELSE Op(Head(s)) \o FlatMap(Op, Tail(s))

\* {} (an empty dict) and None
EmptyDict == [x \in {} |-> x]
None == "None"

\* d.get(k, {})
Get(d, k) == IF k \in DOMAIN d THEN d[k] ELSE EmptyDict

\* truth value of d.get("ok")
GetOk(d) == IF "ok" \in DOMAIN d THEN d["ok"] ELSE FALSE

\* bool(x) of a list
Truthy(l) == l # <<>>

\* ---- the program ----
REQ_ENVS ==
    <<"META_APP_ID", "IG_APP_SECRET", "GRAPH_API_VERSION", "API_BASE_URL",
      "ENCRYPTION_KEY", "DATABASE_URL", "REDIS_URL", "OPENAI_API_KEY", "PORT",
      "IG_VERIFY_TOKEN", "REDIRECT_URI">>

\* p.read_text(...) raises on an entry that is no file; both attempts fail.
read_text_safe(root, p) ==
    IF root[p].kind = "file" THEN root[p].text ELSE ""

\* root.rglob(pat): the entries under root that pat matches, in walk order
rglob(root, pat) ==
    SelectSeq(WalkOrder, LAMBDA p : root[p].kind # "absent" /\ p \in GlobTable[pat])

glob_files(root, patterns) ==
    FlatMap(LAMBDA pat : rglob(root, pat), patterns)

find_any(root, names) ==
    SelectSeq(rglob(root, "*"), LAMBDA p : root[p].kind = "file" /\ NameTable[p] \in names)

\* the set of group(1) of rx over the listed files
Captures(root, paths, rx) ==
    UNION {Range(re_finditer(rx, read_text_safe(root, p))) : p \in Range(paths)}

\* pair.strip().strip('"').strip("'") and split(":", 1) of the pairs of one
\* "ports: [...]" match: the <<host, cont>> of the pairs that hold a ":"
SplitPairs(m) == SplitPairsTable[m]

ComposeFiles(root) ==
    rglob(root, "docker-compose*.yml") \o rglob(root, "docker-compose*.yaml")

\* The five lists are sorted(set): each is given here as the set it lists.
summarize_ports(root) ==
    [env |-> Captures(root, find_any(root, {".env", ".env.production", ".env.example", ".env.sample"}),
                      "^\\s*PORT\\s*=\\s*([0-9]+)"),
     dockerfile |-> Captures(root, rglob(root, "Dockerfile"), "EXPOSE\\s+([0-9]+)"),
     compose |-> UNION {{pr[2] : pr \in Range(SplitPairs(m))} :
                        m \in Captures(root, ComposeFiles(root), "ports:\\s*\\[([^\\]]+)\\]")},
     health_targets |-> Captures(root, ComposeFiles(root),
                      "healthcheck:[\\s\\S]*?curl[^\\n]*?http[s]?://[^\\n]+?:(\\d+)/health"),
     code |-> Captures(root, glob_files(root, <<"*.ts", "*.js">>), "process\\.env\\.PORT\\s*\\|\\|\\s*([0-9]+)")
              \cup Captures(root, glob_files(root, <<"*.ts", "*.js">>), "\\.listen\\(\\s*([0-9]{2,5})")]

placeholder_patterns ==
    <<"sk-your_", "your_jwt_secret_here", "your_instagram_app_id_here",
      "ENCRYPTION_KEY=.*(key_here|1234)">>

scan_env_validation(root) ==
    LET candidates == rglob(root, "startup/validation.ts") \o rglob(root, "config/environment.ts")
    IN  IF candidates = <<>>
        THEN [file |-> None, error |-> "validation file not found"]
        ELSE LET t == read_text_safe(root, candidates[1])
                 env_files == find_any(root, {".env.example", ".env.sample"})
                 leaks(ef) == FlatMap(LAMBDA pat : IF re_search(pat, read_text_safe(root, ef), "")
                                                   THEN <<<<NameTable[ef], pat>>>> ELSE <<>>,
                                      placeholder_patterns)
             IN  [file |-> candidates[1],
                  missing_checks |-> SelectSeq(REQ_ENVS, LAMBDA key : ~re_search(key, t, "")),
                  placeholders_leaking |-> FlatMap(leaks, env_files)]

\* Variant: the search walks every extension of TEXT_EXTS (line 26).
SearchGlobs_text_exts ==
    <<"*.ts", "*.tsx", "*.js", "*.jsx", "*.json", "*.yml", "*.yaml", "*.env", "*.md",
      "*.toml", "*.sql", "*.conf", "*.dockerfile">>

\* Variant: the search also walks the files named Dockerfile.
SearchGlobs_with_dockerfile ==
    <<"*.ts", "*.js", "*.sql", "*.yml", "*.yaml", "Dockerfile">>

\* line 111: the file patterns search_patterns walks
SearchGlobs == <<"*.ts", "*.js", "*.sql", "*.yml", "*.yaml">>

\* Variant: the loop over the group's regexes has no break.
match_group_no_break(p, t, regs) ==
    FlatMap(LAMBDA rx : IF re_search(rx, t, "I|M") THEN <<p>> ELSE <<>>, regs)

\* lines 114-117: the first regex of the group that matches the file records
\* the file once and ends the loop over the group's regexes
match_group(p, t, regs) ==
    IF \E i \in 1..Len(regs) : re_search(regs[i], t, "I|M") THEN <<p>> ELSE <<>>

\* Variant: a match replaces the group's list instead of extending it.
search_patterns_overwrite(root, patterns) ==
    [key \in DOMAIN patterns |->
        LET all == FlatMap(LAMBDA p : match_group(p, read_text_safe(root, p), patterns[key]),
                           glob_files(root, SearchGlobs))
        IN  IF all = <<>> THEN <<>> ELSE <<all[Len(all)]>>]

\* lines 109-118
search_patterns(root, patterns) ==
    [key \in DOMAIN patterns |->
        FlatMap(LAMBDA p : match_group(p, read_text_safe(root, p), patterns[key]),
                glob_files(root, SearchGlobs))]

pats_pkce ==
    [has_pkce_terms |-> <<"code_verifier", "pkce">>,
     stores_in_redis |-> <<"pkce:.*state", "setex|setEx\\(">>,
     callback_reads_verifier |-> <<"/callback", "code_verifier", "redis\\.get">>,
     deletes_after_use |-> <<"redis\\.(del|unlink)\\(">>]

\* lines 120-129
check_pkce(root) ==
    LET hits == search_patterns(root, pats_pkce)
    IN  [ok |-> \A k \in DOMAIN hits : Truthy(hits[k]),
         hits |-> hits]

pats_idempotency ==
    [hash_merchant_and_body |-> <<"createHash\\(['\\\"]sha256['\\\"]\\).*?update\\(.+merchant.*raw", "sha256\\(.+merchant_id.+rawBody">>,
     db_unique |-> <<"UNIQUE\\s*\\(\\s*merchant_id\\s*,\\s*event_id\\s*\\)", "ADD CONSTRAINT .* UNIQUE .*merchant_id.*event_id">>]

\* Variant: the two groups are combined with and.
check_idempotency_all(root) ==
    LET hits == search_patterns(root, pats_idempotency)
    IN  [ok |-> Truthy(hits["hash_merchant_and_body"]) /\ Truthy(hits["db_unique"]),
         hits |-> hits]

\* lines 131-138
check_idempotency(root) ==
    LET hits == search_patterns(root, pats_idempotency)
    IN  [ok |-> Truthy(hits["hash_merchant_and_body"]) \/ Truthy(hits["db_unique"]),
         hits |-> hits]

pats_redis_required ==
    [env_required |-> <<"REDIS_URL", "throw new Error\\(.+REDIS_URL.+required">>,
     fail_on_end |-> <<"redis\\.on\\(['\\\"]end['\\\"].+process\\.exit">>,
     rediss_tls |-> <<"rediss://">>]

\* lines 140-148
check_redis_required(root) ==
    LET hits == search_patterns(root, pats_redis_required)
    IN  [ok |-> Truthy(hits["env_required"]),
         hits |-> hits]

pats_rate_limiter ==
    [redis_window |-> <<"rl:.*merchant.*endpoint.*\\d+", "redis\\.incr\\(", "redis\\.expire\\(">>]

\* lines 150-156
check_rate_limiter(root) ==
    LET hits == search_patterns(root, pats_rate_limiter)
    IN  [ok |-> Truthy(hits["redis_window"]),
         hits |-> hits]

pats_retry_backoff ==
    [handles_429_5xx |-> <<"429", "502", "503", "504">>,
     exponential_backoff |-> <<"2\\s*\\*\\*\\s*i", "exponential", "backoff">>,
     jitter |-> <<"Math\\.random\\(\\)">>]

\* lines 158-166
check_retry_backoff(root) ==
    LET hits == search_patterns(root, pats_retry_backoff)
    IN  [ok |-> Truthy(hits["handles_429_5xx"]) /\ (Truthy(hits["exponential_backoff"]) \/ Truthy(hits["jitter"])),
         hits |-> hits]

pats_dlq ==
    [queue_failed_handler |-> <<"\\.on\\(['\\\"]failed['\\\"]">>,
     push_dlq |-> <<"dlq", "redis\\.(lpush|rpush)\\(">>]

\* lines 168-175
check_dlq(root) ==
    LET hits == search_patterns(root, pats_dlq)
    IN  [ok |-> Truthy(hits["queue_failed_handler"]) /\ Truthy(hits["push_dlq"]),
         hits |-> hits]

pats_token_renewal ==
    [renew_long_lived |-> <<"renew", "long.*lived", "refresh.*token">>]

\* lines 177-183
check_token_renewal(root) ==
    LET hits == search_patterns(root, pats_token_renewal)
    IN  [ok |-> Truthy(hits["renew_long_lived"]),
         hits |-> hits]

pats_rls ==
    [policies |-> <<"CREATE POLICY", "ALTER TABLE .* ENABLE ROW LEVEL SECURITY">>,
     context_fn |-> <<"set_merchant_context\\(", "current_merchant_id\\(">>]

\* lines 185-192
check_rls(root) ==
    LET hits == search_patterns(root, pats_rls)
    IN  [ok |-> Truthy(hits["policies"]) /\ Truthy(hits["context_fn"]),
         hits |-> hits]

pats_mapping_table ==
    [composite_pk |-> <<"PRIMARY KEY\\s*\\(\\s*merchant_id\\s*,\\s*instagram_page_id\\s*\\)">>,
     encrypted_token |-> <<"page_access_token_enc", "encryp">>]

\* lines 194-201
check_mapping_table(root) ==
    LET hits == search_patterns(root, pats_mapping_table)
    IN  [ok |-> Truthy(hits["composite_pk"]) /\ Truthy(hits["encrypted_token"]),
         hits |-> hits]

pats_hmac_rawbody ==
    [header_check |-> <<"X-Hub-Signature-256", "x-hub-signature-256">>,
     raw_body_used |-> <<"rawBody", "getRawBody", "req\\.raw">>,
     timing_safe_equal |-> <<"timingSafeEqual", "crypto\\.timingSafeEqual">>]

\* Variant: the three groups are combined with or.
check_hmac_rawbody_any(root) ==
    LET hits == search_patterns(root, pats_hmac_rawbody)
    IN  [ok |-> Truthy(hits["header_check"]) \/ Truthy(hits["raw_body_used"]) \/ Truthy(hits["timing_safe_equal"]),
         hits |-> hits]

\* lines 203-211
check_hmac_rawbody(root) ==
    LET hits == search_patterns(root, pats_hmac_rawbody)
    IN  [ok |-> Truthy(hits["header_check"]) /\ Truthy(hits["raw_body_used"]) /\ Truthy(hits["timing_safe_equal"]),
         hits |-> hits]

pats_openai_hardening ==
    [timeout |-> <<"timeout\\s*:\\s*\\d+">>,
     json_parse_guard |-> <<"JSON\\.parse\\([^\\)]*\\)", "try", "catch">>,
     input_cap |-> <<"2KB|2048|<=\\s*2000">>]

\* Variant: input_cap is required too.
check_openai_hardening_all(root) ==
    LET hits == search_patterns(root, pats_openai_hardening)
    IN  [ok |-> Truthy(hits["timeout"]) /\ Truthy(hits["json_parse_guard"]) /\ Truthy(hits["input_cap"]),
         hits |-> hits]

\* lines 213-221
check_openai_hardening(root) ==
    LET hits == search_patterns(root, pats_openai_hardening)
    IN  [ok |-> Truthy(hits["timeout"]) /\ Truthy(hits["json_parse_guard"]),
         hits |-> hits]

pats_media_validation ==
    [size_type_checks |-> <<"mime", "content[-_ ]type", "file.*size", "MB", "8MB|10MB|1048576">>]

\* Variant: ok is bool(hits), the truth value of the dict.
check_media_validation_dict(root) ==
    LET hits == search_patterns(root, pats_media_validation)
    IN  [ok |-> DOMAIN hits # {},
         hits |-> hits]

\* lines 223-229
check_media_validation(root) ==
    LET hits == search_patterns(root, pats_media_validation)
    IN  [ok |-> Truthy(hits["size_type_checks"]),
         hits |-> hits]

pats_docker_multistage ==
    [has_build_stage |-> <<"FROM\\s+node:.*AS\\s+build">>,
     runtime_stage |-> <<"FROM\\s+node:.*\\n", "EXPOSE\\s+[0-9]+">>]

\* lines 231-238
check_docker_multistage(root) ==
    LET hits == search_patterns(root, pats_docker_multistage)
    IN  [ok |-> Truthy(hits["has_build_stage"]) /\ Truthy(hits["runtime_stage"]),
         hits |-> hits]

check_compose_ports(root) ==
    [ports |->
        FlatMap(LAMBDA p :
                    FlatMap(LAMBDA m : [i \in 1..Len(SplitPairs(m)) |->
                                            <<p, SplitPairs(m)[i][1], SplitPairs(m)[i][2]>>],
                            re_finditer("ports:\\s*\\[([^\\]]+)\\]", read_text_safe(root, p))),
                ComposeFiles(root))]

\* line 281: the checks that are scored
checks ==
    <<"pkce", "idempotency", "redis_required", "rate_limiter", "retry_backoff", "dlq",
      "token_renewal", "rls", "mapping_table", "hmac_rawbody", "openai_hardening",
      "media_validation", "docker_multistage">>

\* lines 262-278: the entries of the report, before the score
run_checks(root) ==
    [ports_summary |-> summarize_ports(root),
     env_validation |-> scan_env_validation(root),
     pkce |-> check_pkce(root),
     idempotency |-> check_idempotency(root),
     redis_required |-> check_redis_required(root),
     rate_limiter |-> check_rate_limiter(root),
     retry_backoff |-> check_retry_backoff(root),
     dlq |-> check_dlq(root),
     token_renewal |-> check_token_renewal(root),
     rls |-> check_rls(root),
     mapping_table |-> check_mapping_table(root),
     hmac_rawbody |-> check_hmac_rawbody(root),
     openai_hardening |-> check_openai_hardening(root),
     media_validation |-> check_media_validation(root),
     docker_multistage |-> check_docker_multistage(root),
     compose_ports |-> check_compose_ports(root)]

\* Variant: the total counts every entry of the report.
with_score_all_entries(r) ==
    LET score == Cardinality({i \in 1..Len(checks) : GetOk(Get(r, checks[i]))})
    IN  r @@ [score |-> [passed |-> score, total |-> Cardinality(DOMAIN r)]]

\* lines 280-283: sum(1 for c in checks if report.get(c, {}).get("ok"))
with_score(r) ==
    LET score == Cardinality({i \in 1..Len(checks) : GetOk(Get(r, checks[i]))})
    IN  r @@ [score |-> [passed |-> score, total |-> Len(checks)]]

\* ---- state machine ----
NoReport == EmptyDict

Init ==
    /\ rootKind \in {"dir", "file", "absent"}
    /\ fs = [p \in AllPaths |-> Absent]
    /\ argc = 2
    /\ pc = "idle"
    /\ report = NoReport
    /\ written = {}
    /\ outcome = "none"
    /\ code = 0
    /\ last = NoReport
    /\ changed = FALSE

\* Environment: a source entry is created under the root between invocations.
AddEntry(p, e) ==
    /\ pc = "idle"
    /\ rootKind = "dir"
    /\ <<p, e>> \in Samples
    /\ fs[p] = Absent
    /\ Cardinality({x \in SourcePaths : fs[x] # Absent}) < MaxFiles
    /\ fs' = [fs EXCEPT ![p] = e]
    /\ changed' = TRUE
    /\ UNCHANGED <<rootKind, argc, pc, report, written, outcome, code, last>>

\* The script is started with n = len(sys.argv); sys.argv[1], when given,
\* names the root.
Invoke(n) ==
    /\ pc = "idle"
    /\ argc' = n
    /\ pc' = "main"
    /\ report' = NoReport
    /\ written' = {}
    /\ outcome' = "none"
    /\ code' = 0
    /\ UNCHANGED <<rootKind, fs, last, changed>>

\* Variant: the root path is not tested for existence.
main_args_no_exists ==
    /\ pc = "main"
    /\ IF argc < 2
       THEN /\ outcome' = "return"
            /\ code' = 2
            /\ pc' = "idle"
       ELSE /\ pc' = "audit"
            /\ UNCHANGED <<outcome, code>>
    /\ UNCHANGED <<rootKind, fs, argc, report, written, last, changed>>

\* lines 254-260
main_args ==
    /\ pc = "main"
    /\ IF argc < 2 \/ rootKind = "absent"
       THEN /\ outcome' = "return"
            /\ code' = 2
            /\ pc' = "idle"
       ELSE /\ pc' = "audit"
            /\ UNCHANGED <<outcome, code>>
    /\ UNCHANGED <<rootKind, fs, argc, report, written, last, changed>>

\* lines 262-283
main_audit ==
    /\ pc = "audit"
    /\ report' = with_score(run_checks(fs))
    /\ pc' = "save_json"
    /\ UNCHANGED <<rootKind, fs, argc, written, outcome, code, last, changed>>

\* write_text of root / name: NotADirectoryError when the root is a file
write_report(name, text, next) ==
    IF rootKind = "dir"
    THEN /\ fs' = [fs EXCEPT ![name] = File(text)]
         /\ written' = written \cup {name}
         /\ pc' = next
         /\ UNCHANGED outcome
    ELSE /\ outcome' = "raise"
         /\ pc' = "idle"
         /\ UNCHANGED <<fs, written>>

\* line 286
main_save_json ==
    /\ pc = "save_json"
    /\ write_report(ReportJson, ReportJsonText, "save_md")
    /\ UNCHANGED <<rootKind, argc, report, code, last, changed>>

\* lines 289-302
main_save_md ==
    /\ pc = "save_md"
    /\ write_report(ReportMd, ReportMdText, "summary")
    /\ UNCHANGED <<rootKind, argc, report, code, last, changed>>

\* lines 305-308
main_return ==
    /\ pc = "summary"
    /\ outcome' = "return"
    /\ code' = 0
    /\ pc' = "idle"
    /\ last' = report
    /\ changed' = FALSE
    /\ UNCHANGED <<rootKind, fs, argc, report, written>>

Next ==
    \/ \E p \in SourcePaths, e \in {s[2] : s \in Samples} : AddEntry(p, e)
    \/ \E n \in {1, 2} : Invoke(n)
    \/ main_args
    \/ main_audit
    \/ main_save_json
    \/ main_save_md
    \/ main_return

Spec == Init /\ [][Next]_vars

\* ---- vocabulary of the claims ----
ScoredChecks ==
    {"pkce", "idempotency", "redis_required", "rate_limiter", "retry_backoff", "dlq",
     "token_renewal", "rls", "mapping_table", "hmac_rawbody", "openai_hardening",
     "media_validation", "docker_multistage"}

AndChecks == {"pkce", "dlq", "rls", "mapping_table", "hmac_rawbody", "docker_multistage"}

PatsOf(c) ==
    CASE c = "pkce" -> pats_pkce
      [] c = "idempotency" -> pats_idempotency
      [] c = "redis_required" -> pats_redis_required
      [] c = "rate_limiter" -> pats_rate_limiter
      [] c = "retry_backoff" -> pats_retry_backoff
      [] c = "dlq" -> pats_dlq
      [] c = "token_renewal" -> pats_token_renewal
      [] c = "rls" -> pats_rls
      [] c = "mapping_table" -> pats_mapping_table
      [] c = "hmac_rawbody" -> pats_hmac_rawbody
      [] c = "openai_hardening" -> pats_openai_hardening
      [] c = "media_validation" -> pats_media_validation
      [] c = "docker_multistage" -> pats_docker_multistage

\* the paths whose name ends in .ts, .js, .sql, .yml or .yaml
SourceNamed ==
    GlobTable["*.ts"] \cup GlobTable["*.js"] \cup GlobTable["*.sql"]
        \cup GlobTable["*.yml"] \cup GlobTable["*.yaml"]

IsFile(p) == fs[p].kind = "file"

\* some regex of the list matches the content of file p
ContentMatches(p, regs) ==
    IsFile(p) /\ \E i \in 1..Len(regs) : regs[i] \in SearchTableIM[fs[p].text]

\* number of times p occurs in the list
Count(p, l) == Cardinality({i \in 1..Len(l) : l[i] = p})

\* The report is built and nothing is written yet: fs is the tree it was
\* built from.
Audited == pc = "save_json"

\* C1: after the checks have run, score.total is 13 and score.passed is the
\* number of the 13 scored checks whose ok is true, so 0 <= passed <= total;
\* ports_summary, env_validation and compose_ports add to neither.
C1_ScoreCounts ==
    report # NoReport =>
        /\ report.score.total = 13
        /\ report.score.passed = Cardinality({c \in ScoredChecks : report[c].ok})
        /\ 0 <= report.score.passed
        /\ report.score.passed <= report.score.total

\* a report with two passed checks and all three diagnostic entries filled
C1_Witness ==
    /\ report # NoReport
    /\ report.score.passed >= 2
    /\ report.ports_summary.code # {}
    /\ report.env_validation.file # None
    /\ report.compose_ports.ports # <<>>

\* the partial-evidence property of check c, "matched by some file" read over
\* the files of the set `files`
PartialEvidence(c, files) ==
    LET hits == report[c].hits
        matched(g) == \E p \in files : ContentMatches(p, PatsOf(c)[g])
    IN  ((\E g \in DOMAIN hits : matched(g)) /\ (\E g \in DOMAIN hits : ~matched(g)))
        => /\ report[c].ok = FALSE
           /\ \A g \in DOMAIN hits : matched(g) <=> (hits[g] # <<>>)

\* C2 as stated: for every AND-combined check and every tree in which at least
\* one but not all of its groups is matched by some file, ok is false, each
\* matched group has a non-empty hit list and each unmatched group an empty one.
C2_Original ==
    Audited => \A c \in AndChecks : PartialEvidence(c, AllPaths)

\* C2 amended: the same, with "matched by some file" read over the files whose
\* name ends in .ts, .js, .sql, .yml or .yaml.
C2_Amended ==
    Audited => \A c \in AndChecks : PartialEvidence(c, SourceNamed)

\* only the header_check group of hmac_rawbody is matched
C2_Witness ==
    /\ Audited
    /\ report.hmac_rawbody.ok = FALSE
    /\ report.hmac_rawbody.hits.header_check # <<>>
    /\ report.hmac_rawbody.hits.raw_body_used = <<>>
    /\ report.hmac_rawbody.hits.timing_safe_equal = <<>>

\* the idempotency property, "a file" read over the files of the set `files`
IdempotencyOr(files) ==
    LET hits == report.idempotency.hits
    IN  /\ report.idempotency.ok
            <=> (hits.hash_merchant_and_body # <<>> \/ hits.db_unique # <<>>)
        /\ ( /\ \E p \in files :
                    ContentMatches(p, <<"UNIQUE\\s*\\(\\s*merchant_id\\s*,\\s*event_id\\s*\\)">>)
             /\ ~\E p \in AllPaths :
                    ContentMatches(p, pats_idempotency.hash_merchant_and_body) )
           => report.idempotency.ok

\* C3 as stated: idempotency.ok iff one of its two groups has a hit, and a
\* tree with a file matching UNIQUE (merchant_id, event_id) and no file
\* matching a hashing pattern gives idempotency.ok = true.
C3_Original ==
    Audited => IdempotencyOr(AllPaths)

\* C3 amended: the same, the file matching UNIQUE (merchant_id, event_id)
\* being one whose name ends in .ts, .js, .sql, .yml or .yaml.
C3_Amended ==
    Audited => IdempotencyOr(SourceNamed)

\* idempotency passes on the uniqueness constraint alone
C3_Witness ==
    /\ Audited
    /\ fs["db/schema.sql"] = File(TextSchemaEvents)
    /\ report.idempotency.ok
    /\ report.idempotency.hits.hash_merchant_and_body = <<>>
    /\ report.idempotency.hits.db_unique = <<"db/schema.sql">>

\* The root is a directory that held no file when this invocation started:
\* no earlier invocation wrote a report, and every file in it now was written
\* by this one.
StartedEmpty ==
    /\ rootKind = "dir"
    /\ last = NoReport
    /\ \A p \in AllPaths : IsFile(p) => p \in written

AllFalseEmpty(r) ==
    /\ \A c \in ScoredChecks :
          /\ r[c].ok = FALSE
          /\ \A g \in DOMAIN r[c].hits : r[c].hits[g] = <<>>
    /\ r.score.passed = 0

\* C4: an invocation on an existing root directory that holds zero files does
\* not raise, and its report has ok = false and an empty hit list for every
\* group of every check, and score.passed = 0.
C4_EmptyRoot ==
    StartedEmpty =>
        /\ outcome # "raise"
        /\ report # NoReport => AllFalseEmpty(report)

\* the run on the empty directory has written both reports and is about to
\* return
C4_Witness ==
    /\ StartedEmpty
    /\ pc = "summary"
    /\ written = {ReportJson, ReportMd}
    /\ AllFalseEmpty(report)

\* C5: between an invocation and a later one entries are only added to the
\* tree; every hit of the earlier report is a hit of the later one, a check
\* that passed still passes, and score.passed has not decreased.
C5_Monotone ==
    (last # NoReport /\ report # NoReport) =>
        /\ \A c \in ScoredChecks :
              /\ \A g \in DOMAIN last[c].hits :
                    Range(last[c].hits[g]) \subseteq Range(report[c].hits[g])
              /\ last[c].ok => report[c].ok
        /\ last.score.passed <= report.score.passed

\* a file was added between two runs; a check went from failed to passed and
\* an earlier hit is still listed
C5_Witness ==
    /\ last # NoReport
    /\ report # NoReport
    /\ changed
    /\ \E c \in ScoredChecks : ~last[c].ok /\ report[c].ok
    /\ \E c \in ScoredChecks : \E g \in DOMAIN last[c].hits : last[c].hits[g] # <<>>

\* C6: main returns 2 when the argument is missing or the root does not exist,
\* and then no check has run and no report file is written; a run that
\* completes otherwise returns 0, with both report files written.
C6_ExitCodes ==
    /\ outcome = "return" => code \in {0, 2}
    /\ (pc # "main" /\ (argc < 2 \/ rootKind = "absent")) =>
          /\ pc = "idle"
          /\ outcome = "return" => code = 2
          /\ outcome # "raise"
          /\ report = NoReport
          /\ written = {}
    /\ (outcome = "return" /\ code = 2) => (argc < 2 \/ rootKind = "absent")
    /\ (outcome = "return" /\ code = 0) =>
          /\ report # NoReport
          /\ written = {ReportJson, ReportMd}
          /\ IsFile(ReportJson) /\ IsFile(ReportMd)

\* after a run that returned 0 with no check passed, a run without argument
\* has returned 2
C6_Witness ==
    /\ pc = "idle"
    /\ outcome = "return"
    /\ code = 2
    /\ argc < 2
    /\ written = {}
    /\ last # NoReport
    /\ last.score.passed = 0
    /\ IsFile(ReportJson)

\* C7: a run that follows a completed run, with no source entry added in
\* between, builds the same report, although the tree now holds the two
\* report files the earlier run wrote.
C7_Deterministic ==
    (last # NoReport /\ report # NoReport /\ ~changed) => report = last

\* the second of two runs in a row, on a tree with evidence
C7_Witness ==
    /\ pc = "summary"
    /\ last # NoReport
    /\ ~changed
    /\ report = last
    /\ report.score.passed > 0
    /\ \E p \in SourcePaths : IsFile(p)

\* satisfaction booleans of a check's groups
Sat(hits) == [g \in DOMAIN hits |-> hits[g] # <<>>]

CheckOf(c, root) ==
    CASE c = "pkce" -> check_pkce(root)
      [] c = "idempotency" -> check_idempotency(root)
      [] c = "redis_required" -> check_redis_required(root)
      [] c = "rate_limiter" -> check_rate_limiter(root)
      [] c = "retry_backoff" -> check_retry_backoff(root)
      [] c = "dlq" -> check_dlq(root)
      [] c = "token_renewal" -> check_token_renewal(root)
      [] c = "rls" -> check_rls(root)
      [] c = "mapping_table" -> check_mapping_table(root)
      [] c = "hmac_rawbody" -> check_hmac_rawbody(root)
      [] c = "openai_hardening" -> check_openai_hardening(root)
      [] c = "media_validation" -> check_media_validation(root)
      [] c = "docker_multistage" -> check_docker_multistage(root)

\* the trees of at most two sample entries
SmallTrees ==
    {[p \in AllPaths |-> IF p = a[1] THEN a[2] ELSE IF p = b[1] THEN b[2] ELSE Absent] :
        a \in Samples, b \in Samples}
    \cup {[p \in AllPaths |-> Absent]}

\* what check c gives on these trees: ok, and the satisfaction of its groups
Observations(c) ==
    {[ok |-> CheckOf(c, t).ok, sat |-> Sat(CheckOf(c, t).hits)] : t \in SmallTrees}

\* one of the three shapes fits every observation
HasSupportedShape(obs, groups) ==
    \/ \A o \in obs : o.ok = (\A g \in groups : o.sat[g])
    \/ \A o \in obs : o.ok = (\E g \in groups : o.sat[g])
    \/ \E g \in groups : \A o \in obs : o.ok = o.sat[g]

\* C8 as stated: for each of the 13 scored checks, ok is the AND of all its
\* groups' satisfaction, or the OR of all of them, or the satisfaction of one
\* of them: one such shape fits the report just built together with the
\* reports of every tree of at most two sample files.
C8_Original ==
    report # NoReport =>
        \A c \in ScoredChecks :
            HasSupportedShape(
                Observations(c) \cup {[ok |-> report[c].ok, sat |-> Sat(report[c].hits)]},
                DOMAIN PatsOf(c))

\* the function of each check, as the amended claim gives it
ShapeOf(c, s) ==
    CASE c \in AndChecks -> \A g \in DOMAIN s : s[g]
      [] c = "idempotency" -> \E g \in DOMAIN s : s[g]
      [] c = "rate_limiter" -> s.redis_window
      [] c = "token_renewal" -> s.renew_long_lived
      [] c = "media_validation" -> s.size_type_checks
      [] c = "redis_required" -> s.env_required
      [] c = "retry_backoff" -> s.handles_429_5xx /\ (s.exponential_backoff \/ s.jitter)
      [] c = "openai_hardening" -> s.timeout /\ s.json_parse_guard

\* C8 amended: ok is a function of the groups' satisfaction booleans only:
\* the AND of all groups for pkce, dlq, rls, mapping_table, hmac_rawbody and
\* docker_multistage, the OR of all groups for idempotency, one group for
\* rate_limiter, token_renewal, media_validation and redis_required
\* (env_required), handles_429_5xx AND (exponential_backoff OR jitter) for
\* retry_backoff, and timeout AND json_parse_guard for openai_hardening.
C8_Amended ==
    report # NoReport =>
        \A c \in ScoredChecks : report[c].ok = ShapeOf(c, Sat(report[c].hits))

\* retry_backoff passes on handles_429_5xx and jitter, exponential_backoff
\* having no hit
C8_Witness ==
    /\ report # NoReport
    /\ report.retry_backoff.ok
    /\ report.retry_backoff.hits.handles_429_5xx # <<>>
    /\ report.retry_backoff.hits.jitter # <<>>
    /\ report.retry_backoff.hits.exponential_backoff = <<>>

\* C9: a path is in a group's hit list iff it is a file the search walks and
\* one of the group's regexes matches its content, and then it is there once.
C9_HitOncePerFile ==
    Audited =>
        \A c \in ScoredChecks : \A g \in DOMAIN report[c].hits : \A p \in AllPaths :
            Count(p, report[c].hits[g])
                = IF p \in SourceNamed /\ ContentMatches(p, PatsOf(c)[g]) THEN 1 ELSE 0

\* a file that two regexes of one group match is listed once for the group
C9_Witness ==
    /\ Audited
    /\ \E c \in ScoredChecks : \E g \in DOMAIN report[c].hits : \E p \in AllPaths :
          /\ IsFile(p)
          /\ Cardinality({i \in 1..Len(PatsOf(c)[g]) :
                            PatsOf(c)[g][i] \in SearchTableIM[fs[p].text]}) >= 2
          /\ Count(p, report[c].hits[g]) = 1

\* C10: every path in a hit list of a scored check has a name ending in .ts,
\* .js, .sql, .yml or .yaml; a tree whose only files are named Dockerfile
\* leaves docker_multistage failed with empty hit lists.
C10_SourceNamesOnly ==
    /\ report # NoReport =>
          \A c \in ScoredChecks : \A g \in DOMAIN report[c].hits :
              Range(report[c].hits[g]) \subseteq SourceNamed
    /\ (Audited /\ \A p \in AllPaths : IsFile(p) => NameTable[p] = "Dockerfile") =>
          /\ report.docker_multistage.ok = FALSE
          /\ \A g \in DOMAIN report.docker_multistage.hits :
                report.docker_multistage.hits[g] = <<>>

\* the only file is a multi-stage Dockerfile
C10_Witness ==
    /\ Audited
    /\ fs["Dockerfile"] = File(TextDockerMulti)
    /\ \A p \in AllPaths : IsFile(p) => p = "Dockerfile"
    /\ report.docker_multistage.ok = FALSE
    /\ report.docker_multistage.hits.has_build_stage = <<>>
    /\ report.docker_multistage.hits.runtime_stage = <<>>
=============================================================================
